---- MODULE Spec2Model ----
(***************************************************************************)
(* Model of launcher/download_mods.py: one invocation of main() reads the  *)
(* mod list, looks every enabled non-base mod up in the catalog, downloads *)
(* the latest release when its file is not in mods/, removes disabled and  *)
(* outdated zip files, writes the filtered mod list and exits.             *)
(*                                                                         *)
(* Strings are sequences of tokens: "a_1.zip" is <<"a","_","1",".zip">>,   *)
(* the empty string is <<>>.  A token is never the concatenation of other  *)
(* tokens, so equality of token sequences is equality of strings.          *)
(***************************************************************************)
EXTENDS Integers, Sequences, FiniteSets, TLC

VARIABLES
    pc,              \* position of the process in main()
    run,             \* number of the current invocation
    USERNAME, TOKEN, \* module globals (lines 25-26, 227-229)
    inputExists,     \* os.path.exists(MOD_LIST_FILE)
    mod_list,        \* the "mods" sequence of mod-list.json
    storage,         \* names of the files present in mods/
    partial,         \* files of mods/ opened for writing and not completely written
    enabled_mods,    \* main: enabled_mods
    idx,             \* position of the for loop of main in enabled_mods
    latest_versions, \* main: latest_versions
    success_count, failed_count, skipped_count,
    writing,         \* file name download_mod has open, <<>> when none
    outcome,         \* terminal state of every item evaluated so far in this run
    fetchCalls,      \* per evaluated item, the number of download_mod calls
    lookups,         \* names given to fetch_mod_info in this run, in order
    answers,         \* catalog documents fetch_mod_info returned in this run, per item
    firstAnswers,    \* the documents the first run received, once it is over
    targetExisted,   \* per evaluated item: was the target file in mods/ ("yes", "no"),
                     \* "none" when the lookup gave no release
    atCleanup,       \* storage when cleanup_old_mods started
    cleaned,         \* TRUE once cleanup_old_mods has returned in this run
    deleted,         \* files unlinked by cleanup_old_mods in this run
    kept_count, deleted_count,
    filtered,        \* content written to mods/mod-list.json
    written,         \* TRUE once write_filtered_mod_list has returned in this run
    storage0,        \* storage when this run started
    exitStatus       \* process exit status, -1 while running

vars == <<pc, run, USERNAME, TOKEN, inputExists, mod_list, storage, partial,
          enabled_mods, idx, latest_versions, success_count, failed_count,
          skipped_count, writing, outcome, fetchCalls, lookups, answers,
          firstAnswers, targetExisted, atCleanup, cleaned, deleted, kept_count, deleted_count, filtered,
          written, storage0, exitStatus>>

----------------------------------------------------------------------------
(* Bounds *)

MaxDecl == 2      \* longest mod list
MaxStored == 1    \* most files in mods/ before the first run

----------------------------------------------------------------------------
(* Strings *)

None == <<"<None>">>          \* Python None, different from every string
EmptyStr == <<>>
\* mutant: only None is falsy
Truthy_NotNone(x) == x # None

Truthy(x) == x # None /\ x # EmptyStr

ModA == <<"a">>
ModB == <<"b">>
ModBase == <<"base">>

BASE_GAME_MODS == {<<"base">>, <<"elevated-rails">>, <<"quality">>, <<"space-age">>}

FileName(name, version) == name \o <<"_">> \o version \o <<".zip">>

EndsWithZip(filename) == Len(filename) > 0 /\ filename[Len(filename)] = ".zip"

\* str.rfind('_'), 1-based; 0 when there is no underscore
RFindUnderscore(s) ==
    LET hits == {i \in 1..Len(s) : s[i] = "_"}
    IN IF hits = {} THEN 0 ELSE CHOOSE i \in hits : \A j \in hits : j <= i

\* mutant: an empty name or version part is accepted
parse_mod_filename_NoEmptyCheck(filename) ==
    IF ~EndsWithZip(filename) THEN None
    ELSE LET stem == SubSeq(filename, 1, Len(filename) - 1)
             last_underscore == RFindUnderscore(stem)
         IN IF last_underscore = 0 THEN None
            ELSE <<SubSeq(stem, 1, last_underscore - 1),
                   SubSeq(stem, last_underscore + 1, Len(stem))>>

\* <<mod_name, version>>, or None when the name is not a valid mod zip
parse_mod_filename(filename) ==
    IF ~EndsWithZip(filename) THEN None
    ELSE LET stem == SubSeq(filename, 1, Len(filename) - 1)
             last_underscore == RFindUnderscore(stem)
         IN IF last_underscore = 0 THEN None
            ELSE LET mod_name == SubSeq(stem, 1, last_underscore - 1)
                     version == SubSeq(stem, last_underscore + 1, Len(stem))
                 IN IF mod_name = EmptyStr \/ version = EmptyStr THEN None
                    ELSE <<mod_name, version>>

----------------------------------------------------------------------------
(* Inputs *)

\* names a mod list declares
DeclNames == {ModA, ModB, ModBase}

\* the entries of a mod list: a and base enabled or disabled, b enabled
DeclRecords == {r \in [name : DeclNames, enabled : BOOLEAN] : r.name = ModB => r.enabled}

SeqsUpTo(S, n) == UNION {[1..k -> S] : k \in 0..n}

ModLists == SeqsUpTo(DeclRecords, MaxDecl)

\* files mods/ may hold before the first run
LocalFiles ==
    { FileName(ModA, <<"1">>), FileName(ModBase, <<"1">>),
      <<"a", ".zip">>, <<"a", "_", ".zip">>, <<"_", "1", ".zip">>, <<"a", "_", "1">> }

Storages == {S \in SUBSET LocalFiles : Cardinality(S) <= MaxStored}

SmallStorages == {S \in Storages : S \subseteq {FileName(ModA, <<"1">>)}}

Credentials == {EmptyStr, <<"u">>}

\* sys.argv[1:3] when len(sys.argv) >= 3, None otherwise
Argvs == {None} \cup (Credentials \X Credentials)

\* the arguments of an invocation: any for the first one; the repetition is
\* started with the credentials the first one ran with
ArgvsOf(r) == IF r = 1 THEN Argvs ELSE {None}

\* a release of the catalog; file_name is None when the catalog omits it
Release(v, fn) == [version |-> v, file_name |-> fn]

CatalogReleases ==
    { Release(<<"2">>, None), Release(EmptyStr, None),
      Release(<<"2">>, FileName(ModA, <<"1">>)) }

\* what fetch_mod_info returns: None (ok = FALSE) or the parsed document
LookupFailed == [ok |-> FALSE, releases |-> <<>>]
ModInfo(rs) == [ok |-> TRUE, releases |-> rs]

CatalogAnswers ==
    {LookupFailed, ModInfo(<<>>)}
    \cup {ModInfo(<<r>>) : r \in CatalogReleases}
    \cup {ModInfo(<<Release(<<"2">>, None), Release(<<"1">>, None)>>)}

----------------------------------------------------------------------------
(* Pure functions of the source *)

\* mutant: base game mods are not excluded
RECURSIVE get_enabled_mods_All(_)
get_enabled_mods_All(ml) ==
    IF ml = <<>> THEN <<>>
    ELSE (IF Head(ml).enabled THEN <<Head(ml).name>> ELSE <<>>)
             \o get_enabled_mods_All(Tail(ml))

\* mutant: the names are collected in reverse order
RECURSIVE get_enabled_mods_Reversed(_)
get_enabled_mods_Reversed(ml) ==
    IF ml = <<>> THEN <<>>
    ELSE LET mod == Head(ml)
         IN get_enabled_mods_Reversed(Tail(ml)) \o
                (IF mod.enabled /\ mod.name \notin BASE_GAME_MODS
                 THEN <<mod.name>> ELSE <<>>)

RECURSIVE get_enabled_mods(_)
get_enabled_mods(ml) ==
    IF ml = <<>> THEN <<>>
    ELSE LET mod == Head(ml)
         IN (IF mod.enabled /\ mod.name \notin BASE_GAME_MODS
             THEN <<mod.name>> ELSE <<>>) \o get_enabled_mods(Tail(ml))

\* mutant: the enabled flag is not read
get_enabled_mod_names_Declared(ml) == {ml[i].name : i \in 1..Len(ml)}

get_enabled_mod_names(ml) == {ml[i].name : i \in {j \in 1..Len(ml) : ml[j].enabled}}

\* the None get_latest_release returns, as a value comparable with a release
NoLatest == [version |-> None, file_name |-> None]

\* mutant: the first release of the list is taken
get_latest_release_First(mod_info) ==
    IF mod_info.releases = <<>> THEN NoLatest
    ELSE mod_info.releases[1]

\* releases[-1], None when the list is empty
get_latest_release(mod_info) ==
    IF mod_info.releases = <<>> THEN NoLatest
    ELSE mod_info.releases[Len(mod_info.releases)]

\* latest.get("file_name", f"{mod_name}_{version}.zip")
TargetFileName(mod_name, latest) ==
    IF latest.file_name = None THEN FileName(mod_name, latest.version)
    ELSE latest.file_name

\* mutants: the existence test looks at the wrong path
Exists_Never(filename, files) == FALSE
Exists_Always(filename, files) == TRUE

\* Path(MODS_DIR, filename).exists()
Exists(filename, files) == filename \in files

\* mutant: the version is not recorded
Put_Skip(lv, k, v) == lv

\* latest_versions[mod_name] = version
Put(lv, k, v) == [x \in DOMAIN lv \cup {k} |-> IF x = k THEN v ELSE lv[x]]

\* mutant: the failure count does not reach the exit status
ExitCode_Zero(failed) == 0

\* sys.exit(1) when an item failed, status 0 otherwise
ExitCode(failed) == IF failed > 0 THEN 1 ELSE 0

\* latest_versions.get(mod_name)
GetLatest(lv, mod_name) == IF mod_name \in DOMAIN lv THEN lv[mod_name] ELSE None

\* mutant: only the zips of mods that are not enabled are unlinked
CleanupDeletes_DisabledOnly(files, enabled_mod_names, lv) ==
    { f \in files :
        /\ EndsWithZip(f)
        /\ parse_mod_filename(f) # None
        /\ parse_mod_filename(f)[1] \notin enabled_mod_names }

\* the zip files cleanup_old_mods unlinks
CleanupDeletes(files, enabled_mod_names, lv) ==
    { f \in files :
        /\ EndsWithZip(f)
        /\ parse_mod_filename(f) # None
        /\ LET mod_name == parse_mod_filename(f)[1]
               version == parse_mod_filename(f)[2]
               latest_version == GetLatest(lv, mod_name)
           IN \/ mod_name \notin enabled_mod_names
              \/ Truthy(latest_version) /\ version # latest_version }

\* the zip files cleanup_old_mods counts as kept
CleanupKeeps(files, enabled_mod_names, lv) ==
    { f \in files : EndsWithZip(f) /\ parse_mod_filename(f) # None }
        \ CleanupDeletes(files, enabled_mod_names, lv)

\* mutant: the base game mods are left out of the written list
RECURSIVE FilterEnabled_NoBase(_)
FilterEnabled_NoBase(ml) ==
    IF ml = <<>> THEN <<>>
    ELSE (IF Head(ml).enabled /\ Head(ml).name \notin BASE_GAME_MODS
          THEN <<Head(ml)>> ELSE <<>>) \o FilterEnabled_NoBase(Tail(ml))

\* the enabled entries of the mod list, in order
RECURSIVE FilterEnabled(_)
FilterEnabled(ml) ==
    IF ml = <<>> THEN <<>>
    ELSE (IF Head(ml).enabled THEN <<Head(ml)>> ELSE <<>>) \o FilterEnabled(Tail(ml))

----------------------------------------------------------------------------
(* State machine *)

NotWritten == <<[name |-> None, enabled |-> FALSE]>>

Init ==
    /\ pc = "start"
    /\ run = 1
    /\ USERNAME \in Credentials
    /\ TOKEN \in Credentials
    /\ inputExists \in BOOLEAN
    /\ mod_list \in (IF inputExists THEN ModLists ELSE {<<>>})
    /\ storage \in Storages
    /\ partial = {}
    /\ enabled_mods = <<>>
    /\ idx = 1
    /\ latest_versions = <<>>
    /\ success_count = 0
    /\ failed_count = 0
    /\ skipped_count = 0
    /\ writing = <<>>
    /\ outcome = <<>>
    /\ fetchCalls = <<>>
    /\ lookups = <<>>
    /\ answers = <<>>
    /\ firstAnswers = <<>>
    /\ targetExisted = <<>>
    /\ atCleanup = {}
    /\ cleaned = FALSE
    /\ deleted = {}
    /\ kept_count = 0
    /\ deleted_count = 0
    /\ filtered = NotWritten
    /\ written = FALSE
    /\ storage0 = storage
    /\ exitStatus = -1

envVars == <<run, inputExists, mod_list, firstAnswers, storage0>>
fileVars == <<storage, partial, writing>>
loopVars == <<enabled_mods, idx, latest_versions, outcome, fetchCalls, lookups,
              answers, targetExisted>>
countVars == <<success_count, failed_count, skipped_count>>
cleanupVars == <<atCleanup, cleaned, deleted, kept_count, deleted_count>>
writerVars == <<filtered, written>>

\* lines 227-229: the arguments, when given, replace the globals
Override(argv) ==
    /\ USERNAME' = IF argv # None THEN argv[1] ELSE USERNAME
    /\ TOKEN' = IF argv # None THEN argv[2] ELSE TOKEN

\* lines 227-235: a credential is empty
CredentialsMissing ==
    /\ pc = "start"
    /\ \E argv \in ArgvsOf(run) : Override(argv)
    /\ ~Truthy(USERNAME') \/ ~Truthy(TOKEN')
    /\ pc' = "done"
    /\ exitStatus' = 1
    /\ UNCHANGED <<envVars, fileVars, loopVars, countVars, cleanupVars, writerVars>>

\* mutant: the missing mod-list.json is reported and the run goes on with an
\* empty list
InputMissing_Continues ==
    /\ pc = "start"
    /\ \E argv \in ArgvsOf(run) : Override(argv)
    /\ Truthy(USERNAME') /\ Truthy(TOKEN')
    /\ ~inputExists
    /\ enabled_mods' = <<>>
    /\ pc' = "loop"
    /\ UNCHANGED <<envVars, fileVars, idx, latest_versions, outcome, fetchCalls,
                   lookups, answers, targetExisted, countVars, cleanupVars,
                   writerVars, exitStatus>>

\* lines 227-240: mod-list.json is not there
InputMissing ==
    /\ pc = "start"
    /\ \E argv \in ArgvsOf(run) : Override(argv)
    /\ Truthy(USERNAME') /\ Truthy(TOKEN')
    /\ ~inputExists
    /\ pc' = "done"
    /\ exitStatus' = 1
    /\ UNCHANGED <<envVars, fileVars, loopVars, countVars, cleanupVars, writerVars>>

\* lines 227-257: the preconditions hold, the mod list is loaded, the counters
\* and the version map start empty
Begin ==
    /\ pc = "start"
    /\ \E argv \in ArgvsOf(run) : Override(argv)
    /\ Truthy(USERNAME') /\ Truthy(TOKEN')
    /\ inputExists
    /\ enabled_mods' = get_enabled_mods(mod_list)
    /\ idx' = 1
    /\ latest_versions' = <<>>
    /\ success_count' = 0
    /\ failed_count' = 0
    /\ skipped_count' = 0
    /\ pc' = "loop"
    /\ UNCHANGED <<envVars, fileVars, outcome, fetchCalls, lookups, answers,
                   targetExisted, cleanupVars, writerVars, exitStatus>>

InLoop == pc = "loop" /\ idx <= Len(enabled_mods)

\* the catalog's answer to the lookup of item i: any answer in the first run,
\* in the second run the answer the first run received
AnswersFor(i) ==
    IF run > 1 /\ i <= Len(firstAnswers) THEN {firstAnswers[i]} ELSE CatalogAnswers

\* line 263: fetch_mod_info(mod_name) returns ans
Lookup(ans) ==
    /\ ans \in AnswersFor(idx)
    /\ answers' = Append(answers, ans)
    /\ lookups' = Append(lookups, enabled_mods[idx])

\* lines 270-288: ans has a latest release; its version is recorded and the
\* target file name computed
Latest(ans) == get_latest_release(ans)
Target(ans) == TargetFileName(enabled_mods[idx], Latest(ans))

Selected(ans) ==
    /\ ans.ok
    /\ Latest(ans) # NoLatest
    /\ latest_versions' = Put(latest_versions, enabled_mods[idx], Latest(ans).version)
    /\ targetExisted' = Append(targetExisted,
                               IF Target(ans) \in storage THEN "yes" ELSE "no")

\* mutant: a failed lookup ends the process
ItemLookupError_Abort ==
    /\ InLoop
    /\ \E ans \in CatalogAnswers : Lookup(ans) /\ ~ans.ok
    /\ failed_count' = failed_count + 1
    /\ pc' = "done"
    /\ exitStatus' = 1
    /\ UNCHANGED <<USERNAME, TOKEN, envVars, fileVars, enabled_mods, idx,
                   latest_versions, outcome, fetchCalls, targetExisted,
                   success_count, skipped_count, cleanupVars, writerVars>>

\* lines 263-267: fetch_mod_info returned None
ItemLookupError ==
    /\ InLoop
    /\ \E ans \in CatalogAnswers : Lookup(ans) /\ ~ans.ok
    /\ failed_count' = failed_count + 1
    /\ outcome' = Append(outcome, "Failed(LookupError)")
    /\ fetchCalls' = Append(fetchCalls, 0)
    /\ targetExisted' = Append(targetExisted, "none")
    /\ idx' = idx + 1
    /\ UNCHANGED <<pc, USERNAME, TOKEN, envVars, fileVars, enabled_mods,
                   latest_versions, success_count, skipped_count, cleanupVars,
                   writerVars, exitStatus>>

\* mutant: a mod without releases is counted as failed
ItemNoRelease_CountsFailed ==
    /\ InLoop
    /\ \E ans \in CatalogAnswers : Lookup(ans) /\ ans.ok /\ Latest(ans) = NoLatest
    /\ failed_count' = failed_count + 1
    /\ outcome' = Append(outcome, "Failed(LookupError)")
    /\ fetchCalls' = Append(fetchCalls, 0)
    /\ targetExisted' = Append(targetExisted, "none")
    /\ idx' = idx + 1
    /\ UNCHANGED <<pc, USERNAME, TOKEN, envVars, fileVars, enabled_mods,
                   latest_versions, success_count, skipped_count, cleanupVars,
                   writerVars, exitStatus>>

\* lines 263-274: the document has no release
ItemNoRelease ==
    /\ InLoop
    /\ \E ans \in CatalogAnswers : Lookup(ans) /\ ans.ok /\ Latest(ans) = NoLatest
    /\ skipped_count' = skipped_count + 1
    /\ outcome' = Append(outcome, "Skipped(NoRelease)")
    /\ fetchCalls' = Append(fetchCalls, 0)
    /\ targetExisted' = Append(targetExisted, "none")
    /\ idx' = idx + 1
    /\ UNCHANGED <<pc, USERNAME, TOKEN, envVars, fileVars, enabled_mods,
                   latest_versions, success_count, failed_count, cleanupVars,
                   writerVars, exitStatus>>

\* mutant: an item that is already current is not counted
ItemAlreadyCurrent_Uncounted ==
    /\ InLoop
    /\ \E ans \in CatalogAnswers :
          Lookup(ans) /\ Selected(ans) /\ Exists(Target(ans), storage)
    /\ outcome' = Append(outcome, "Skipped(AlreadyCurrent)")
    /\ fetchCalls' = Append(fetchCalls, 0)
    /\ idx' = idx + 1
    /\ UNCHANGED <<pc, USERNAME, TOKEN, envVars, fileVars, enabled_mods,
                   countVars, cleanupVars, writerVars, exitStatus>>

\* lines 263-291: the target file exists
ItemAlreadyCurrent ==
    /\ InLoop
    /\ \E ans \in CatalogAnswers :
          Lookup(ans) /\ Selected(ans) /\ Exists(Target(ans), storage)
    /\ skipped_count' = skipped_count + 1
    /\ outcome' = Append(outcome, "Skipped(AlreadyCurrent)")
    /\ fetchCalls' = Append(fetchCalls, 0)
    /\ idx' = idx + 1
    /\ UNCHANGED <<pc, USERNAME, TOKEN, envVars, fileVars, enabled_mods,
                   success_count, failed_count, cleanupVars, writerVars,
                   exitStatus>>

\* lines 263-297 with 178-182, 207-216: download_mod is called and urlopen
\* raises before the file is opened
ItemFetchRefused ==
    /\ InLoop
    /\ \E ans \in CatalogAnswers :
          Lookup(ans) /\ Selected(ans) /\ ~Exists(Target(ans), storage)
    /\ failed_count' = failed_count + 1
    /\ outcome' = Append(outcome, "Failed(FetchError)")
    /\ fetchCalls' = Append(fetchCalls, 1)
    /\ idx' = idx + 1
    /\ UNCHANGED <<pc, USERNAME, TOKEN, envVars, fileVars, enabled_mods,
                   success_count, skipped_count, cleanupVars, writerVars,
                   exitStatus>>

\* lines 263-294 with 178-190: download_mod is called, the response arrives
\* and open(output_path, 'wb') creates the file
ItemFetchOpen ==
    /\ InLoop
    /\ \E ans \in CatalogAnswers :
          /\ Lookup(ans) /\ Selected(ans) /\ ~Exists(Target(ans), storage)
          /\ storage' = storage \cup {Target(ans)}
          /\ partial' = partial \cup {Target(ans)}
          /\ writing' = Target(ans)
    /\ fetchCalls' = Append(fetchCalls, 1)
    /\ pc' = "writing"
    /\ UNCHANGED <<USERNAME, TOKEN, envVars, enabled_mods, idx, outcome,
                   countVars, cleanupVars, writerVars, exitStatus>>

\* mutant: a finished download unlinks the other zips of the mod at once
FetchComplete_Replaces ==
    /\ pc = "writing"
    /\ storage' = {f \in storage :
                      \/ f = writing
                      \/ ~EndsWithZip(f)
                      \/ parse_mod_filename(f) = None
                      \/ parse_mod_filename(f)[1] # enabled_mods[idx]}
    /\ partial' = partial \ {writing}
    /\ writing' = <<>>
    /\ success_count' = success_count + 1
    /\ outcome' = Append(outcome, "Fetched")
    /\ idx' = idx + 1
    /\ pc' = "loop"
    /\ UNCHANGED <<USERNAME, TOKEN, envVars, enabled_mods,
                   latest_versions, fetchCalls, lookups, answers, targetExisted,
                   failed_count, skipped_count, cleanupVars, writerVars,
                   exitStatus>>

\* lines 191-205, 294-295: every chunk is written, download_mod returns True
FetchComplete ==
    /\ pc = "writing"
    /\ partial' = partial \ {writing}
    /\ writing' = <<>>
    /\ success_count' = success_count + 1
    /\ outcome' = Append(outcome, "Fetched")
    /\ idx' = idx + 1
    /\ pc' = "loop"
    /\ UNCHANGED <<USERNAME, TOKEN, envVars, storage, enabled_mods,
                   latest_versions, fetchCalls, lookups, answers, targetExisted,
                   failed_count, skipped_count, cleanupVars, writerVars,
                   exitStatus>>

\* mutant: the exception raised while streaming is not caught
FetchBroken_Abort ==
    /\ pc = "writing"
    /\ writing' = <<>>
    /\ pc' = "done"
    /\ exitStatus' = 1
    /\ UNCHANGED <<USERNAME, TOKEN, envVars, storage, partial, loopVars,
                   countVars, cleanupVars, writerVars>>

\* lines 191-195, 214-219, 296-297: reading the response or writing a chunk
\* raises; the file stays as far as it was written, download_mod returns False
FetchBroken ==
    /\ pc = "writing"
    /\ writing' = <<>>
    /\ failed_count' = failed_count + 1
    /\ outcome' = Append(outcome, "Failed(FetchError)")
    /\ idx' = idx + 1
    /\ pc' = "loop"
    /\ UNCHANGED <<USERNAME, TOKEN, envVars, storage, partial, enabled_mods,
                   latest_versions, fetchCalls, lookups, answers, targetExisted,
                   success_count, skipped_count, cleanupVars, writerVars,
                   exitStatus>>

\* lines 301-304, 80-119: the loop is over; disabled and outdated zips go
Cleanup ==
    /\ pc = "loop"
    /\ idx > Len(enabled_mods)
    /\ LET enabled_mod_names == get_enabled_mod_names(mod_list)
           gone == CleanupDeletes(storage, enabled_mod_names, latest_versions)
       IN /\ atCleanup' = storage
          /\ deleted' = gone
          /\ deleted_count' = Cardinality(gone)
          /\ kept_count' = Cardinality(CleanupKeeps(storage, enabled_mod_names,
                                                    latest_versions))
          /\ storage' = storage \ gone
          /\ partial' = partial \ gone
    /\ cleaned' = TRUE
    /\ pc' = "write"
    /\ UNCHANGED <<USERNAME, TOKEN, envVars, writing, loopVars, countVars,
                   writerVars, exitStatus>>

\* lines 307-310, 122-138: the filtered mod list is written
WriteFilteredModList ==
    /\ pc = "write"
    /\ filtered' = FilterEnabled(mod_list)
    /\ written' = TRUE
    /\ pc' = "summary"
    /\ UNCHANGED <<USERNAME, TOKEN, envVars, fileVars, loopVars, countVars,
                   cleanupVars, exitStatus>>

\* lines 313-321: the summary is printed and the process exits
Summary ==
    /\ pc = "summary"
    /\ exitStatus' = ExitCode(failed_count)
    /\ pc' = "done"
    /\ UNCHANGED <<USERNAME, TOKEN, envVars, fileVars, loopVars, countVars,
                   cleanupVars, writerVars>>

\* the script is invoked a second time after a complete run, with the same
\* credentials, the same mod-list.json, the same catalog and mods/ as the
\* first run left it
NextRun ==
    /\ pc = "done"
    /\ written
    /\ run = 1
    /\ run' = 2
    /\ firstAnswers' = answers
    /\ storage0' = storage
    /\ pc' = "start"
    /\ enabled_mods' = <<>>
    /\ idx' = 1
    /\ latest_versions' = <<>>
    /\ success_count' = 0
    /\ failed_count' = 0
    /\ skipped_count' = 0
    /\ outcome' = <<>>
    /\ fetchCalls' = <<>>
    /\ lookups' = <<>>
    /\ answers' = <<>>
    /\ targetExisted' = <<>>
    /\ atCleanup' = {}
    /\ cleaned' = FALSE
    /\ deleted' = {}
    /\ kept_count' = 0
    /\ deleted_count' = 0
    /\ written' = FALSE
    /\ exitStatus' = -1
    /\ UNCHANGED <<USERNAME, TOKEN, inputExists, mod_list, fileVars, filtered>>

\* one invocation of the script
Run ==
    \/ CredentialsMissing
    \/ InputMissing
    \/ Begin
    \/ ItemLookupError
    \/ ItemNoRelease
    \/ ItemAlreadyCurrent
    \/ ItemFetchRefused
    \/ ItemFetchOpen
    \/ FetchComplete
    \/ FetchBroken
    \/ Cleanup
    \/ WriteFilteredModList
    \/ Summary

Spec == Init /\ [][Run]_vars

\* an invocation and its repetition
Next ==
    \/ CredentialsMissing
    \/ InputMissing
    \/ Begin
    \/ ItemLookupError
    \/ ItemNoRelease
    \/ ItemAlreadyCurrent
    \/ ItemFetchRefused
    \/ ItemFetchOpen
    \/ FetchComplete
    \/ FetchBroken
    \/ Cleanup
    \/ WriteFilteredModList
    \/ Summary
    \/ NextRun

\* Init with mods/ empty or holding a_1.zip
InitSmall == Init /\ storage \in SmallStorages

RerunSpec == InitSmall /\ [][Next]_vars

\* the process is sequential and every network call has a timeout (lines 145,
\* 182): a step that can be taken is taken
FairSpec == InitSmall /\ [][Run]_vars /\ WF_vars(Run)

TypeOK ==
    /\ pc \in {"start", "loop", "writing", "write", "summary", "done"}
    /\ partial \subseteq storage
    /\ idx \in 1..(Len(enabled_mods) + 1)

----------------------------------------------------------------------------
(* Properties *)

WellFormed(f) == EndsWithZip(f) /\ parse_mod_filename(f) # None
NameOf(f) == parse_mod_filename(f)[1]
VersionOf(f) == parse_mod_filename(f)[2]

EnabledNames == {mod_list[i].name : i \in {j \in 1..Len(mod_list) : mod_list[j].enabled}}
DesiredSet == EnabledNames \ BASE_GAME_MODS

Failed(o) == o \in {"Failed(LookupError)", "Failed(FetchError)"}

\* C1 as stated: after cleanup, a well-formed artifact that was in storage
\* when cleanup started is still there iff its name is in DesiredSet and its
\* name is no key of the version map or its version is the mapped one.
C1_RetainedIffDesired ==
    cleaned =>
        \A f \in atCleanup : WellFormed(f) =>
            (f \in storage <=>
                /\ NameOf(f) \in DesiredSet
                /\ \/ NameOf(f) \notin DOMAIN latest_versions
                   \/ VersionOf(f) = latest_versions[NameOf(f)])

\* C1 amended: after cleanup, a well-formed artifact that was in storage when
\* cleanup started is still there iff its name is declared enabled (base game
\* mods included) and its name is no key of the version map, or the mapped
\* version is the empty string, or its version is the mapped one.
C1_RetainedIffEnabled ==
    cleaned =>
        \A f \in atCleanup : WellFormed(f) =>
            (f \in storage <=>
                /\ NameOf(f) \in EnabledNames
                /\ \/ NameOf(f) \notin DOMAIN latest_versions
                   \/ latest_versions[NameOf(f)] = EmptyStr
                   \/ VersionOf(f) = latest_versions[NameOf(f)])

C1_Witness ==
    /\ cleaned
    /\ \E f \in atCleanup :
          WellFormed(f) /\ f \in storage /\ NameOf(f) \in DOMAIN latest_versions
    /\ \E f \in atCleanup : WellFormed(f) /\ f \notin storage

NoFetchCalls == \A i \in 1..Len(fetchCalls) : fetchCalls[i] = 0

SecondRunComplete == run = 2 /\ pc = "done" /\ written

\* the first run left the target file of every item whose lookup gave a release
TargetsLeft ==
    \A i \in 1..Len(firstAnswers) :
        (firstAnswers[i].ok /\ firstAnswers[i].releases # <<>>) =>
            TargetFileName(enabled_mods[i], get_latest_release(firstAnswers[i]))
                \in storage0

C3_FetchedOnceOrSkipped ==
    \A i \in 1..Len(fetchCalls) :
        /\ targetExisted[i] = "no" => fetchCalls[i] = 1
        /\ targetExisted[i] = "yes" =>
              /\ fetchCalls[i] = 0
              /\ i <= Len(outcome) => outcome[i] = "Skipped(AlreadyCurrent)"

C3_Witness ==
    /\ pc = "done"
    /\ \E i, j \in 1..Len(outcome) :
          targetExisted[i] = "no" /\ targetExisted[j] = "yes"

BaseArtifacts(files) == {f \in files : WellFormed(f) /\ NameOf(f) \in BASE_GAME_MODS}

\* C4 as stated: no run looks up or fetches a base game mod, and no run
\* deletes an artifact whose parsed name is a base game mod.
C4_BaseNeverTouched ==
    /\ \A i \in 1..Len(lookups) : lookups[i] \notin BASE_GAME_MODS
    /\ \A i \in 1..Len(enabled_mods) : enabled_mods[i] \notin BASE_GAME_MODS
    /\ BaseArtifacts(deleted) = {}

\* C4 amended: no run looks up or fetches a base game mod; cleanup deletes an
\* artifact whose parsed name is a base game mod exactly when that name is not
\* declared enabled.
C4_BaseNeverFetched ==
    /\ \A i \in 1..Len(lookups) : lookups[i] \notin BASE_GAME_MODS
    /\ \A i \in 1..Len(enabled_mods) : enabled_mods[i] \notin BASE_GAME_MODS
    /\ cleaned =>
          \A f \in BaseArtifacts(atCleanup) :
              /\ f \in deleted <=> NameOf(f) \notin EnabledNames
              /\ f \in storage <=> NameOf(f) \in EnabledNames

C4_Witness ==
    /\ cleaned
    /\ ModBase \in EnabledNames
    /\ Len(lookups) > 0
    /\ BaseArtifacts(storage) # {}

\* C5: cleanup deletes every well-formed artifact whose name is not declared
\* enabled, whatever its version and whatever the version map holds.
C5_DisabledDeleted ==
    cleaned =>
        \A f \in atCleanup :
            (WellFormed(f) /\ NameOf(f) \notin EnabledNames) =>
                (f \in deleted /\ f \notin storage)

C5_Witness ==
    /\ cleaned
    /\ latest_versions # <<>>
    /\ \E f \in atCleanup : WellFormed(f) /\ NameOf(f) \notin EnabledNames

C7_LookupErrorSkipsItem ==
    [][ (Len(answers') = Len(answers) + 1 /\ ~answers'[Len(answers')].ok) =>
            /\ outcome' = Append(outcome, "Failed(LookupError)")
            /\ fetchCalls' = Append(fetchCalls, 0)
            /\ Len(lookups') = Len(lookups) + 1
            /\ latest_versions' = latest_versions
            /\ storage' = storage
            /\ partial' = partial
            /\ enabled_mods' = enabled_mods
            /\ idx' = idx + 1
            /\ pc' = "loop" ]_vars

C7_Witness ==
    \E i \in 1..Len(outcome) :
        /\ outcome[i] = "Failed(LookupError)"
        /\ i < Len(outcome)
        /\ outcome[i + 1] = "Fetched"

C9_NoPartialArtifact == partial = {}

\* C10: the exit status is zero exactly when both credentials and the input
\* document were there and no item ended Failed; otherwise it is non-zero.
C10_ExitStatus ==
    pc = "done" =>
        /\ exitStatus \in {0, 1}
        /\ exitStatus = 0 <=>
              /\ USERNAME # EmptyStr /\ TOKEN # EmptyStr
              /\ inputExists
              /\ \A i \in 1..Len(outcome) : ~Failed(outcome[i])

C10_Witness ==
    /\ pc = "done"
    /\ exitStatus = 0
    /\ \E i, j \in 1..Len(outcome) :
          outcome[i] = "Skipped(NoRelease)" /\ outcome[j] = "Skipped(AlreadyCurrent)"

\* a file name outside the naming convention: no .zip suffix, no underscore,
\* empty name part or empty version part
Malformed(f) ==
    \/ Len(f) = 0
    \/ f[Len(f)] # ".zip"
    \/ \A i \in 1..(Len(f) - 1) : f[i] # "_"
    \/ f[Len(f) - 1] = "_"
    \/ f[1] = "_" /\ \A i \in 2..(Len(f) - 1) : f[i] # "_"

HasRelease(ans) == ans.ok /\ ans.releases # <<>>
NoReleases(ans) == ans.ok /\ ans.releases = <<>>

\* the file names download_mod was called with in this run
FetchTargets ==
    { TargetFileName(lookups[i], answers[i].releases[Len(answers[i].releases)]) :
        i \in {j \in 1..Len(fetchCalls) : fetchCalls[j] > 0} }

\* C12: an item whose catalog document has zero releases ends
\* Skipped(NoRelease) without a download_mod call; only names with a lookup
\* that gave a release are keys of the version map, only download targets are
\* added to storage, and only Failed items are counted as failed.
C12_NoReleaseSkipped ==
    /\ \A i \in 1..Len(answers) :
          NoReleases(answers[i]) =>
              /\ fetchCalls[i] = 0
              /\ i <= Len(outcome)
              /\ outcome[i] = "Skipped(NoRelease)"
    /\ \A n \in DOMAIN latest_versions :
          \E i \in 1..Len(answers) : lookups[i] = n /\ HasRelease(answers[i])
    /\ ~cleaned => storage \subseteq storage0 \cup FetchTargets
    /\ failed_count = Cardinality({i \in 1..Len(outcome) : Failed(outcome[i])})

C12_Witness ==
    /\ pc = "done"
    /\ written
    /\ \E i \in 1..Len(answers) : NoReleases(answers[i])
    /\ \E i \in 1..Len(outcome) : outcome[i] = "Fetched"
    /\ failed_count = 0

\* the run is past the precondition checks of main
Started == pc \in {"loop", "writing", "write", "summary"} \/ (pc = "done" /\ written)

IsEnabled(m) == m.enabled
IsDesired(m) == m.enabled /\ m.name \notin BASE_GAME_MODS
NamesOf(ms) == [i \in 1..Len(ms) |-> ms[i].name]

\* C13: the desired-fetch sequence is the names of the declared entries that
\* are enabled and no base game mod, in declaration order; the enabled-name
\* set is the names declared enabled, base game mods included.
C13_DesiredSequence ==
    /\ Started => enabled_mods = NamesOf(SelectSeq(mod_list, IsDesired))
    /\ \A n \in DeclNames :
          n \in get_enabled_mod_names(mod_list) <=>
              \E i \in 1..Len(mod_list) : mod_list[i].name = n /\ mod_list[i].enabled
    /\ get_enabled_mod_names(mod_list) \subseteq DeclNames

C13_Witness ==
    /\ Started
    /\ mod_list = <<[name |-> ModA, enabled |-> TRUE], [name |-> ModBase, enabled |-> TRUE]>>
    /\ enabled_mods = <<ModA>>
    /\ get_enabled_mod_names(mod_list) = {ModA, ModBase}

\* C14: when a credential is empty after the arguments replaced the globals,
\* or mod-list.json is absent, the process ends with status 1 and has made no
\* lookup, no download, no deletion and no write of the filtered list.
C14_FatalBeforeAnyEffect ==
    (pc # "start" /\ (USERNAME = EmptyStr \/ TOKEN = EmptyStr \/ ~inputExists)) =>
        /\ pc = "done"
        /\ exitStatus = 1
        /\ lookups = <<>>
        /\ fetchCalls = <<>>
        /\ storage = storage0
        /\ partial = {}
        /\ ~cleaned /\ deleted = {}
        /\ ~written /\ filtered = NotWritten

C14_Witness ==
    /\ pc = "done"
    /\ USERNAME # EmptyStr /\ TOKEN = EmptyStr
    /\ inputExists
    /\ Len(mod_list) > 0
    /\ \E f \in storage : ~Malformed(f)

\* C15: the written mod list holds the declared entries that are enabled,
\* base game mods included, whole and in declaration order, whatever the
\* outcomes of the items were.
C15_FilteredModList ==
    /\ written => filtered = SelectSeq(mod_list, IsEnabled)
    /\ (run = 1 /\ ~written) => filtered = NotWritten

C15_Witness ==
    /\ written
    /\ \E i \in 1..Len(mod_list) : mod_list[i].name = ModBase /\ mod_list[i].enabled
    /\ \E i \in 1..Len(mod_list) : ~mod_list[i].enabled
    /\ Len(filtered) = 1

\* the lookups made so far that returned at least one release
WithRelease == {i \in 1..Len(answers) : HasRelease(answers[i])}
LastRelease(ans) == ans.releases[Len(ans.releases)]
LastLookupOf(n) ==
    CHOOSE i \in WithRelease :
        lookups[i] = n /\ \A j \in WithRelease : lookups[j] = n => j <= i
LoopOver == pc = "loop" /\ idx > Len(enabled_mods)

\* C16: when cleanup starts and ever after, the keys of latest_versions are
\* the desired names whose lookup returned at least one release, each mapped
\* to the version of the last release of the returned list; the set cleanup
\* deleted is the one these versions give, so the map cleanup read is the map
\* the loop left and the map that remains.
C16_MapAtCleanup ==
    (LoopOver \/ cleaned) =>
        /\ DOMAIN latest_versions = {lookups[i] : i \in WithRelease}
        /\ DOMAIN latest_versions \subseteq DesiredSet
        /\ \A n \in DOMAIN latest_versions :
              latest_versions[n] = LastRelease(answers[LastLookupOf(n)]).version
        /\ cleaned =>
              deleted = CleanupDeletes(atCleanup, EnabledNames, latest_versions)

C16_Witness ==
    /\ cleaned
    /\ \E i \in WithRelease :
          /\ Len(answers[i].releases) = 2
          /\ latest_versions[lookups[i]] = <<"1">>
    /\ \E i \in 1..Len(lookups) : lookups[i] \notin DOMAIN latest_versions
    /\ deleted # {}

\* C17: nothing leaves storage before cleanup, and cleanup runs when every
\* item of enabled_mods has its outcome and no download is open; with a_1.zip
\* stored, a enabled and the catalog's latest version 2, a_2.zip is stored
\* beside a_1.zip first and a_1.zip is deleted afterwards, so that a_2.zip is
\* the only file of a.
C17_DeletionsAfterItems ==
    /\ ~cleaned => (storage0 \subseteq storage /\ deleted = {})
    /\ cleaned =>
          /\ Len(outcome) = Len(enabled_mods)
          /\ Len(lookups) = Len(enabled_mods)
          /\ idx > Len(enabled_mods)
          /\ partial \subseteq FetchTargets
          /\ storage = atCleanup \ deleted
    /\ (/\ mod_list = <<[name |-> ModA, enabled |-> TRUE]>>
        /\ storage0 = {FileName(ModA, <<"1">>)}
        /\ answers = <<ModInfo(<<Release(<<"2">>, None)>>)>>
        /\ outcome = <<"Fetched">>) =>
            IF cleaned
            THEN storage = {FileName(ModA, <<"2">>)}
            ELSE storage = {FileName(ModA, <<"1">>), FileName(ModA, <<"2">>)}

C17_Witness ==
    /\ cleaned
    /\ mod_list = <<[name |-> ModA, enabled |-> TRUE]>>
    /\ storage0 = {FileName(ModA, <<"1">>)}
    /\ outcome = <<"Fetched">>
    /\ deleted = {FileName(ModA, <<"1">>)}
    /\ storage = {FileName(ModA, <<"2">>)}

\* the file item i selected as current
TargetOf(i) == TargetFileName(lookups[i], LastRelease(answers[i]))

\* C18 as stated: the file an item fetched or found already current is in
\* storage after cleanup.
C18_SelectedSurvives ==
    cleaned =>
        \A i \in 1..Len(outcome) :
            outcome[i] \in {"Fetched", "Skipped(AlreadyCurrent)"} =>
                TargetOf(i) \in storage

Count(o) == Cardinality({i \in 1..Len(outcome) : outcome[i] = o})

\* C20: every evaluated item has one of the five terminal states and is
\* counted in one counter: the three counters add up to the number of items
\* evaluated, and to the length of enabled_mods once the loop is over.
C20_OneCounterPerItem ==
    /\ \A i \in 1..Len(outcome) :
          outcome[i] \in {"Fetched", "Skipped(AlreadyCurrent)", "Skipped(NoRelease)",
                          "Failed(LookupError)", "Failed(FetchError)"}
    /\ success_count = Count("Fetched")
    /\ skipped_count = Count("Skipped(AlreadyCurrent)") + Count("Skipped(NoRelease)")
    /\ failed_count = Count("Failed(LookupError)") + Count("Failed(FetchError)")
    /\ success_count + skipped_count + failed_count = Len(outcome)
    /\ pc \in {"loop", "writing"} => Len(outcome) = idx - 1
    /\ (LoopOver \/ cleaned) => Len(outcome) = Len(enabled_mods)

C20_Witness ==
    /\ LoopOver
    /\ Len(enabled_mods) = MaxDecl
    /\ skipped_count = 1
    /\ failed_count = 1
    /\ \E i \in 1..Len(outcome) : outcome[i] = "Skipped(AlreadyCurrent)"

====
